---------------------------- MODULE Spec2Model ----------------------------
(***************************************************************************)
(* A model of the pkg.go.dev scraping client (package pkggodev).           *)
(*                                                                         *)
(* Two versions of the client live in the repository: src/client.go and    *)
(* src/unnamed/part_000.  They agree on normalizeTime, Versions and the    *)
(* kind scan of DescribePackage and differ in Search:                      *)
(*   - part_000 paginates with the flag shouldContinue, a page counter and *)
(*     a ceiling of 10 pages, and reads snippets inside ".SearchResults";  *)
(*   - client.go paginates with the flag morePages, which only the         *)
(*     "results-total" header clears, and reads ".LegacySearchSnippet".    *)
(* Both Search functions are modelled; their actions are named after the   *)
(* flag or the selector that tells them apart.                             *)
(*                                                                         *)
(* A text is the sequence of its space-separated fields, that is, the      *)
(* value of strings.Split(s, " "): "3 days ago" is <<"3", "days", "ago">>  *)
(* and the empty string is <<"">>.                                         *)
(***************************************************************************)
EXTENDS Integers, Sequences, FiniteSets, TLC

VARIABLES
    op,              \* the public operation that was called
    pc,              \* the position of control within it
    now,             \* what time.Now() reads, in hours since 1970-01-01 00:00
    Limit,           \* req.Limit of the running Search
    results,         \* results.Results
    errs,            \* errs.Errs
    shouldContinue,  \* part_000 Search: shouldContinue
    morePages,       \* client.go Search: morePages
    page,            \* the page counter of the Search loop
    doc,             \* the document of the page being processed
    snip,            \* index of the next snippet of doc to be handed to its callback
    ret,             \* what the operation returned: [res, err]
    visits,          \* history: the page numbers col.Visit was called with
    obs,             \* history: what the fetched pages contained (see NoObs)
    versions,        \* Versions: versions.Versions
    curVersion,      \* Versions: curVersion of the running .Versions-list callback
    curMajorVersion, \* Versions: curMajorVersion of that callback
    vlog,            \* history: what the walk of Versions met (see NoVLog)
    p,               \* DescribePackage: the Package being filled
    dlog,            \* history: what DescribePackage met on the page (see NoDLog)
    importedByList,  \* ImportedBy: len(importedBy.ImportedBy)
    importedByErr,   \* ImportedBy: err
    failure,         \* history: the HTTP status OnError was called with, if it was
    dateStr,         \* normalizeTime called on its own: its argument s
    normalized,      \* what normalizeTime(s) returned
    renormalized,    \* what normalizeTime returned for the string it had returned
    client,          \* the client New built: [baseURL, httpClient]
    site,            \* what the server serves to concurrent calls
    calls            \* concurrent calls: for each caller the locals of its call

searchVars == <<Limit, results, shouldContinue, morePages, page, doc, snip, visits, obs>>

versionsVars == <<versions, curVersion, curMajorVersion, vlog>>

describeVars == <<p, dlog>>

importedByVars == <<importedByList, importedByErr>>

normalizeVars == <<dateStr, normalized, renormalized>>

concurrentVars == <<client, site, calls>>

vars == <<op, pc, now, errs, ret, failure, searchVars, versionsVars, describeVars,
          importedByVars, normalizeVars, concurrentVars>>

-----------------------------------------------------------------------------
(* Bounds of the model *)

\* snippets on one search page
MaxSnippets == 3
\* largest req.Limit tried
MaxLimit == 11
\* largest req.Limit tried on the Search of client.go
MaxLegacyLimit == 4
\* Visits after which the model stops following the client.go loop, which has
\* no ceiling of its own
MaxVisits == 11
\* errors a single Search may collect from malformed snippets
MaxBadSnippets == 1
\* children walked by one call of Versions, over all its lists
MaxNodes == 4
\* .Versions-list elements on one page
MaxLists == 1
\* siblings after one title heading
MaxLabels == 3
\* title headings on one page
MaxHeadings == 2
\* images in the readme of one page
MaxImages == 2
\* .u-breakWord elements on one importedby page
MaxImporters == 2
\* space-separated fields of a string handed to normalizeTime on its own
MaxFields == 3
\* largest req.Limit of a concurrent Search
MaxCallLimit == 3

-----------------------------------------------------------------------------
(* Dates: the part of package time that normalizeTime uses *)

IsLeap(y) == (y % 4 = 0 /\ y % 100 # 0) \/ y % 400 = 0

DaysIn(m, y) ==
    IF m = 2 THEN (IF IsLeap(y) THEN 29 ELSE 28)
    ELSE IF m \in {4, 6, 9, 11} THEN 30 ELSE 31

\* days from 1970-01-01 to the civil date y-m-d
DaysFromCivil(y, m, d) ==
    LET yy  == IF m <= 2 THEN y - 1 ELSE y
        era == yy \div 400
        yoe == yy - era * 400
        mp  == IF m > 2 THEN m - 3 ELSE m + 9
        doy == (153 * mp + 2) \div 5 + d - 1
        doe == yoe * 365 + yoe \div 4 - yoe \div 100 + doy
    IN era * 146097 + doe - 719468

\* the civil date <<y, m, d>> of a day counted from 1970-01-01
CivilFromDays(z0) ==
    LET z   == z0 + 719468
        era == z \div 146097
        doe == z - era * 146097
        yoe == (doe - doe \div 1460 + doe \div 36524 - doe \div 146096) \div 365
        doy == doe - (365 * yoe + yoe \div 4 - yoe \div 100)
        mp  == (5 * doy + 2) \div 153
        d   == doy - (153 * mp + 2) \div 5 + 1
        m   == IF mp < 10 THEN mp + 3 ELSE mp - 9
        y   == yoe + era * 400 + (IF m <= 2 THEN 1 ELSE 0)
    IN <<y, m, d>>

Pad2(n) == IF n < 10 THEN "0" \o ToString(n) ELSE ToString(n)

\* the year as Format writes it: the sign, if negative, then at least four
\* digits
Pad4(n) ==
    LET u == IF n < 0 THEN -n ELSE n
        digits == IF u < 10 THEN "000" \o ToString(u)
                  ELSE IF u < 100 THEN "00" \o ToString(u)
                  ELSE IF u < 1000 THEN "0" \o ToString(u)
                  ELSE ToString(u)
    IN IF n < 0 THEN "-" \o digits ELSE digits

\* absTime.Format("2006-01-02") of the instant t (hours since the epoch)
Format(t) ==
    LET c == CivilFromDays(t \div 24)
    IN Pad4(c[1]) \o "-" \o Pad2(c[2]) \o "-" \o Pad2(c[3])

Months == <<"Jan", "Feb", "Mar", "Apr", "May", "Jun",
            "Jul", "Aug", "Sep", "Oct", "Nov", "Dec">>

\* the years whose four-digit spelling the model can read
Years == 1990 .. 2030

\* the integers whose decimal spelling the model can read
Quantities == (-40 .. 40) \cup {2006, 1000000, -2000000}

\* the decimal spellings the model can read, with their values
Decimal == [tok \in {ToString(n) : n \in Quantities} |->
              CHOOSE n \in Quantities : ToString(n) = tok]

\* strconv.ParseInt(tok, 10, 64) / strconv.Atoi(tok): <<TRUE, n>> or <<FALSE, 0>>
ParseInt(tok) ==
    IF tok \in DOMAIN Decimal THEN <<TRUE, Decimal[tok]>> ELSE <<FALSE, 0>>

\* time.Parse("Jan 2, 2006", s): <<TRUE, instant>> or <<FALSE, 0>>
ParseLayout(s) ==
    IF /\ Len(s) = 3
       /\ \E m \in 1 .. 12 : Months[m] = s[1]
       /\ \E d \in 1 .. 31 : ToString(d) \o "," = s[2]
       /\ \E y \in Years : ToString(y) = s[3]
    THEN LET m == CHOOSE k \in 1 .. 12 : Months[k] = s[1]
             d == CHOOSE k \in 1 .. 31 : ToString(k) \o "," = s[2]
             y == CHOOSE k \in Years : ToString(k) = s[3]
         IN IF d <= DaysIn(m, y)
            THEN <<TRUE, 24 * DaysFromCivil(y, m, d)>>
            ELSE <<FALSE, 0>>
    ELSE <<FALSE, 0>>

\* the fields of the model's texts that contain "ago"
AgoWords == {"ago", "ago.", "Chicago"}

\* strings.Contains(s, "ago"): a substring without a space lies in one field
ContainsAgo(s) == \E i \in 1 .. Len(s) : s[i] \in AgoWords

\* strings.TrimSuffix(tok, "s")
TrimSuffixS(tok) ==
    CASE tok = "hours" -> "hour"
      [] tok = "days" -> "day"
      [] tok = "weeks" -> "week"
      [] tok = "fortnights" -> "fortnight"
      [] tok = "months" -> "month"
      [] tok = "s" -> ""
      [] OTHER -> tok

\* now.AddDate(0, 0, days)
AddDate(t, days) == t + 24 * days

\* what normalizeTime returns: the string and the error ("" is the nil error)
Returns(val, err) == [val |-> val, err |-> err]

normalizeTime(s, clock) ==
    IF s = <<"today">> THEN Returns(Format(clock), "")
    ELSE IF ContainsAgo(s) THEN
        LET split == s
            quantityStr == split[1]
            quantity == ParseInt(quantityStr)
        IN IF ~quantity[1] THEN Returns("", "parsing quantity")
           ELSE IF Len(split) < 2 THEN Returns("", "panic: index out of range")
           ELSE LET unit == TrimSuffixS(split[2])
                IN CASE unit = "hour" ->
                            Returns(Format(clock - quantity[2]), "")
                     [] unit = "day" ->
                            Returns(Format(AddDate(clock, -quantity[2])), "")
                     [] unit = "week" ->
                            Returns(Format(AddDate(clock, -7 * quantity[2])), "")
                     [] OTHER -> Returns("", "unknown quantity")
    ELSE LET d == ParseLayout(s)
         IN IF ~d[1] THEN Returns("", "parsing date")
            ELSE Returns(Format(d[2]), "")

\* the instants time.Now() reads in the model
Clock == { 24 * DaysFromCivil(2024, 3, 1) + 1 }

\* the fields of the strings normalizeTime is tried on
Fields == {"", "today", "ago", "Chicago", "3", "1000000", "-2000000", "days",
           "hour", "weeks", "fortnights", "Jan", "Feb", "2,", "30,", "2006"}

\* the strings normalizeTime is tried on: one to MaxFields fields
Texts == UNION { [1 .. n -> Fields] : n \in 1 .. MaxFields }

\* normalizeTime has not been called
NotCalled == Returns("", "not called")


-----------------------------------------------------------------------------
(* Values shared by the operations *)

\* an element of errs.Errs: what failed and, where the code formats it in,
\* the page or HTTP status it names
Err(kind, n) == [kind |-> kind, n |-> n]

\* the (value, error) pair a public operation returns; res is "nil" or "value"
Return(res, e) == [res |-> res, err |-> e]

NotReturned == Return("pending", "pending")

RECURSIVE Join(_)
\* strings.Join(s, " "): the text back as one string
Join(s) == IF Len(s) = 1 THEN s[1] ELSE s[1] \o " " \o Join(Tail(s))

\* strings.ReplaceAll(tok, ",", "")
StripCommas(tok) ==
    CASE tok = "3,0" -> "30"
      [] tok = "1,0,0" -> "100"
      [] OTHER -> tok

\* a SearchResult.  Its Package is the serial number of the snippet it was
\* read from; the other fields are text copied from the snippet and decide
\* nothing in the program
Result(serial) == [Package |-> serial]

\* HTTP outcomes colly reports through OnError: a status of 203 or more, or
\* no response at all (status 0)
FailStatuses == {404, 500, 0}

-----------------------------------------------------------------------------
(* Search pages *)

\* the text of the [data-test-id=results-total] element; <<>> when the page
\* has no such element
Headers ==
    { <<>>, <<"">>, <<"0", "results">>, <<"1", "result">>, <<"1", "-", "10">> }
    \cup { <<"1", "-", ToString(r[1]), "of", ToString(r[2]), "results">> :
             r \in {<<2, 2>>, <<2, 20>>, <<10, 10>>, <<10, 20>>} }
    \cup { <<"results", "1", "-", ToString(r[1]), "of", ToString(r[2])>> :
             r \in {<<2, 2>>, <<10, 10>>, <<10, 20>>} }

\* a fetched search page: its total header, whether it has a .SearchResults
\* container, and the number of snippets (inside the container, if any)
Docs == { d \in [header : Headers, container : BOOLEAN, n : 0 .. MaxSnippets] :
            ~d.container => d.n = 0 }

\* a snippet: the text of its published date and of its imported-by count
Snippets == { [published |-> <<"today">>, importedBy |-> "3,0"],
              [published |-> <<"not", "a", "date">>, importedBy |-> "3,0"],
              [published |-> <<"today">>, importedBy |-> "n/a"] }

WellFormed(sn) ==
    /\ normalizeTime(sn.published, 0).err = ""
    /\ ParseInt(StripCommas(sn.importedBy))[1]

\* the upper bound M and the total T of a header "N - M of T", wherever the
\* word "results" stands: <<TRUE, M, T>>, or <<FALSE, 0, 0>> for another text
HeaderRange(h) ==
    IF Len(h) = 6 /\ \E i \in 2 .. 5 : h[i] = "of" /\ ParseInt(h[i - 1])[1]
                                       /\ ParseInt(h[i + 1])[1]
    THEN LET i == CHOOSE k \in 2 .. 5 : h[k] = "of"
         IN <<TRUE, ParseInt(h[i - 1])[2], ParseInt(h[i + 1])[2]>>
    ELSE <<FALSE, 0, 0>>

\* what the history records of the pages fetched so far; a page field is 0
\* until such a page has been fetched
NoObs == [seen      |-> 0,      \* snippets that reached the limit test of the
                                \* snippet callback while it let them pass
          bad       |-> 0,      \* malformed snippets among them
          dropped   |-> FALSE,  \* a snippet was turned away by the limit test
          hdrStop   |-> FALSE,  \* the header of the last page fetched reads
                                \* "N - M of T" with M >= Limit or M = T
          failPage  |-> 0,      \* first page whose fetch ended in OnError
          errPage   |-> 0,      \* first page whose Visit returned an error
          emptyPage |-> 0,      \* first page whose container holds no snippet
          limitPage |-> 0,      \* first page on which seen reached Limit
          plain     |-> TRUE,   \* every page so far was fetched, had the
                                \* container and had no header
          allThree  |-> TRUE]   \* every page so far was fetched and held
                                \* exactly 3 snippets in its container

First(old, cond, pg) == IF old = 0 /\ cond THEN pg ELSE old

\* whether header h reads "N - M of T" with M >= limit or M = T
HeaderSaysStop(h, limit) ==
    LET r == HeaderRange(h)
    IN r[1] /\ (r[2] >= limit \/ r[2] = r[3])

\* the history after page p answered with document d
ObserveDoc(o, pg, d, limit) ==
    [o EXCEPT
       !.hdrStop   = HeaderSaysStop(d.header, limit),
       !.emptyPage = First(@, d.container /\ d.n = 0, pg),
       !.plain     = @ /\ d.container /\ d.header = <<>>,
       !.allThree  = @ /\ d.container /\ d.n = 3]

\* the history after the Visit of page p returned an error
ObserveError(o, pg, onError) ==
    [o EXCEPT !.hdrStop  = FALSE,
              !.errPage  = First(@, TRUE, pg),
              !.failPage = First(@, onError, pg),
              !.plain    = FALSE,
              !.allThree = FALSE]

\* the history after one more snippet passed (or, turned = TRUE, failed) the
\* limit test of the snippet callback on page p
ObserveSnippet(o, pg, sn, limit, turned) ==
    IF turned THEN [o EXCEPT !.dropped = TRUE]
    ELSE [o EXCEPT !.seen = @ + 1,
                   !.bad  = IF WellFormed(sn) THEN @ ELSE @ + 1,
                   !.limitPage = First(@, o.seen + 1 >= limit, pg)]

-----------------------------------------------------------------------------
(* Search, src/unnamed/part_000 *)

\* the ceiling on the page counter
PageCeiling == 10

\* a loop condition that forgets the limit
LoopGuardIgnoresLimit(cont, len, limit) == cont

\* the condition of the for loop
LoopGuard(cont, len, limit) == cont /\ len < limit

\* a limit test that is late by one
SnippetLimitOffByOne(len, limit) == len > limit

\* the test that opens the callback of one snippet
SnippetLimitReached(len, limit) == len >= limit

\* the test after the loop that decides between (nil, errs) and (results, nil)
HasErrors(e) == Len(e) > 0

\* the test that ends the loop after page++
PastCeiling(pg) == pg > PageCeiling

\* Search is called: results, errs, shouldContinue and page are initialised
Search(limit) ==
    /\ pc = "idle"
    /\ op' = "Search (part_000)"
    /\ pc' = "for shouldContinue"
    /\ Limit' = limit
    /\ results' = <<>>
    /\ errs' = <<>>
    /\ shouldContinue' = TRUE
    /\ page' = 1
    /\ UNCHANGED <<concurrentVars, normalizeVars, importedByVars, failure, versionsVars, describeVars, now, morePages, doc, snip, ret, visits, obs>>

\* the loop condition fails: control leaves the loop
SearchLoopExit ==
    /\ pc = "for shouldContinue"
    /\ ~LoopGuard(shouldContinue, Len(results), Limit)
    /\ pc' = "return shouldContinue"
    /\ UNCHANGED <<concurrentVars, normalizeVars, importedByVars, failure, versionsVars, describeVars, op, now, errs, ret, searchVars>>

\* col.Visit fetches the page; the .SearchResults callback starts, if the page
\* has the container, and ends at once when the container holds no snippet
SearchVisit(d) ==
    /\ pc = "for shouldContinue"
    /\ LoopGuard(shouldContinue, Len(results), Limit)
    /\ visits' = Append(visits, page)
    /\ obs' = ObserveDoc(obs, page, d, Limit)
    /\ IF d.container /\ d.n = 0
       THEN shouldContinue' = FALSE
       ELSE shouldContinue' = shouldContinue
    /\ IF d.container /\ d.n > 0
       THEN /\ pc' = "each SearchSnippet"
            /\ doc' = d.n
            /\ snip' = 1
       ELSE /\ pc' = "page++"
            /\ UNCHANGED <<doc, snip>>
    /\ UNCHANGED <<concurrentVars, normalizeVars, importedByVars, failure, versionsVars, describeVars, op, now, Limit, results, errs, morePages, page, ret>>

\* the fetch fails: OnError appends and clears shouldContinue, then Visit
\* returns the error, which is appended too, and the loop breaks
SearchVisitOnError(status) ==
    /\ pc = "for shouldContinue"
    /\ LoopGuard(shouldContinue, Len(results), Limit)
    /\ visits' = Append(visits, page)
    /\ obs' = ObserveError(obs, page, TRUE)
    /\ errs' = errs \o <<Err("error fetching", page), Err("visiting page", page)>>
    /\ shouldContinue' = FALSE
    /\ pc' = "return shouldContinue"
    /\ failure' = status
    /\ UNCHANGED <<concurrentVars, normalizeVars, importedByVars, versionsVars, describeVars, op, now, Limit, results, morePages, page, doc, snip, ret>>

\* Visit refuses the URL before any request: no callback runs, the error is
\* appended and the loop breaks
SearchVisitRefused ==
    /\ pc = "for shouldContinue"
    /\ LoopGuard(shouldContinue, Len(results), Limit)
    /\ visits' = Append(visits, page)
    /\ obs' = ObserveError(obs, page, FALSE)
    /\ errs' = Append(errs, Err("visiting page", page))
    /\ pc' = "return shouldContinue"
    /\ UNCHANGED <<concurrentVars, normalizeVars, importedByVars, failure, versionsVars, describeVars, op, now, Limit, results, shouldContinue, morePages, page, doc, snip, ret>>

\* the body of Each for one .SearchSnippet
SearchEachSnippet(sn) ==
    /\ pc = "each SearchSnippet"
    /\ WellFormed(sn) \/ obs.bad < MaxBadSnippets
    /\ obs' = ObserveSnippet(obs, page, sn, Limit,
                              SnippetLimitReached(Len(results), Limit))
    /\ IF SnippetLimitReached(Len(results), Limit)
       THEN /\ shouldContinue' = FALSE
            /\ UNCHANGED <<results, errs>>
       ELSE LET published == normalizeTime(sn.published, now)
            IN /\ errs' = IF published.err # ""
                          THEN Append(errs, Err("parsing published date", 0))
                          ELSE errs
               /\ results' = Append(results, Result(obs.seen + 1))
               /\ UNCHANGED shouldContinue
    /\ IF snip = doc
       THEN pc' = "page++" /\ doc' = 0 /\ snip' = 0
       ELSE pc' = pc /\ doc' = doc /\ snip' = snip + 1
    /\ UNCHANGED <<concurrentVars, normalizeVars, importedByVars, failure, versionsVars, describeVars, op, now, Limit, morePages, page, ret, visits>>

\* page++ and the ceiling that prevents infinite loops
SearchNextPage ==
    /\ pc = "page++"
    /\ page' = page + 1
    /\ pc' = IF PastCeiling(page + 1)
             THEN "return shouldContinue"
             ELSE "for shouldContinue"
    /\ UNCHANGED <<concurrentVars, normalizeVars, importedByVars, failure, versionsVars, describeVars, op, now, Limit, results, errs, shouldContinue, morePages, doc, snip,
                   ret, visits, obs>>

\* after the loop: (nil, errs) when any error was collected, else (results, nil)
SearchReturn ==
    /\ pc = "return shouldContinue"
    /\ ret' = IF HasErrors(errs) THEN Return("nil", "errs") ELSE Return("value", "nil")
    /\ pc' = "Search returned"
    /\ UNCHANGED <<concurrentVars, normalizeVars, importedByVars, failure, versionsVars, describeVars, op, now, errs, searchVars>>

-----------------------------------------------------------------------------
(* Search, src/client.go *)

\* the callback of [data-test-id=results-total] on header h:
\* the new morePages, the errors to append, and whether it panics on an
\* index out of range
ResultsTotal(h, limit, more) ==
    LET out(m, e, panics) == [morePages |-> m, errs |-> e, panics |-> panics]
        resultsSplit == h
    IN IF h = <<"0", "results">> THEN out(more, <<>>, FALSE)
       ELSE IF Len(resultsSplit) = 2 THEN out(FALSE, <<>>, FALSE)
       ELSE IF Len(resultsSplit) < 3 THEN out(more, <<>>, TRUE)
       ELSE LET upperBoundStr == resultsSplit[3]
                upperBound == ParseInt(upperBoundStr)
            IN IF ~upperBound[1] THEN out(more, <<Err("Atoi", 0)>>, FALSE)
               ELSE IF Len(resultsSplit) < 5 THEN out(more, <<>>, TRUE)
               ELSE LET totalResultsStr == resultsSplit[5]
                        reachedReqLimit == upperBound[2] >= limit
                        reachedLastPage == upperBoundStr = totalResultsStr
                    IN out(~reachedReqLimit /\ ~reachedLastPage, <<>>, FALSE)

\* the test that opens the callback of one .LegacySearchSnippet
LegacyLimitReached(len, limit) == len = limit

\* an error test that overlooks a single error
VisitHadTwoErrors(e) == Len(e) > 1

\* the test after each Visit that returns (nil, errs)
VisitHadErrors(e) == Len(e) > 0

\* Search is called: results, errs and morePages are initialised; the loop
\* starts with page := 1
SearchLegacy(limit) ==
    /\ pc = "idle"
    /\ op' = "Search (client.go)"
    /\ pc' = "for morePages"
    /\ Limit' = limit
    /\ results' = <<>>
    /\ errs' = <<>>
    /\ morePages' = TRUE
    /\ page' = 1
    /\ UNCHANGED <<concurrentVars, normalizeVars, importedByVars, failure, versionsVars, describeVars, now, shouldContinue, doc, snip, ret, visits, obs>>

\* morePages is false: the loop ends and Search returns (results, nil)
SearchLegacyReturn ==
    /\ pc = "for morePages"
    /\ ~morePages
    /\ ret' = Return("value", "nil")
    /\ pc' = "Search returned"
    /\ UNCHANGED <<concurrentVars, normalizeVars, importedByVars, failure, versionsVars, describeVars, op, now, errs, searchVars>>

\* col.Visit fetches the page; the results-total callback runs first, if the
\* page has the header, then the snippet callbacks
SearchLegacyVisit(d) ==
    /\ pc = "for morePages"
    /\ morePages
    /\ Len(visits) < MaxVisits
    /\ visits' = Append(visits, page)
    /\ obs' = [obs EXCEPT !.hdrStop = HeaderSaysStop(d.header, Limit)]
    /\ LET total == IF d.header = <<>>
                    THEN [morePages |-> morePages, errs |-> <<>>, panics |-> FALSE]
                    ELSE ResultsTotal(d.header, Limit, morePages)
       IN /\ morePages' = total.morePages
          /\ errs' = errs \o total.errs
          /\ IF total.panics
             THEN pc' = "panic" /\ UNCHANGED <<doc, snip>>
             ELSE IF d.n > 0
             THEN pc' = "on LegacySearchSnippet" /\ doc' = d.n /\ snip' = 1
             ELSE pc' = "if errs" /\ UNCHANGED <<doc, snip>>
    /\ UNCHANGED <<concurrentVars, normalizeVars, importedByVars, failure, versionsVars, describeVars, op, now, Limit, results, shouldContinue, page, ret>>

\* the fetch fails: OnError appends the error
SearchLegacyVisitOnError(status) ==
    /\ pc = "for morePages"
    /\ morePages
    /\ Len(visits) < MaxVisits
    /\ visits' = Append(visits, page)
    /\ obs' = [obs EXCEPT !.hdrStop = FALSE,
                          !.failPage = First(@, TRUE, page)]
    /\ errs' = Append(errs, Err("e", status))
    /\ pc' = "if errs"
    /\ failure' = status
    /\ UNCHANGED <<concurrentVars, normalizeVars, importedByVars, versionsVars, describeVars, op, now, Limit, results, shouldContinue, morePages, page, doc, snip, ret>>

\* Visit refuses the URL before any request: no callback runs and the error
\* Visit returns is not looked at
SearchLegacyVisitRefused ==
    /\ pc = "for morePages"
    /\ morePages
    /\ Len(visits) < MaxVisits
    /\ visits' = Append(visits, page)
    /\ obs' = [obs EXCEPT !.hdrStop = FALSE]
    /\ pc' = "if errs"
    /\ UNCHANGED <<concurrentVars, normalizeVars, importedByVars, failure, versionsVars, describeVars, op, now, Limit, results, errs, shouldContinue, morePages, page, doc,
                   snip, ret>>

\* the callback of one .LegacySearchSnippet
SearchLegacySnippet(sn) ==
    /\ pc = "on LegacySearchSnippet"
    /\ WellFormed(sn) \/ obs.bad < MaxBadSnippets
    /\ obs' = ObserveSnippet(obs, 0, sn, Limit, LegacyLimitReached(Len(results), Limit))
    /\ IF LegacyLimitReached(Len(results), Limit)
       THEN UNCHANGED <<results, errs>>
       ELSE LET published == normalizeTime(sn.published, now)
                importedBy == ParseInt(StripCommas(sn.importedBy))
            IN IF published.err # ""
               THEN errs' = Append(errs, Err(published.err, 0)) /\ UNCHANGED results
               ELSE IF ~importedBy[1]
               THEN errs' = Append(errs, Err("Atoi", 0)) /\ UNCHANGED results
               ELSE results' = Append(results, Result(obs.seen + 1)) /\ UNCHANGED errs
    /\ IF snip = doc
       THEN pc' = "if errs" /\ doc' = 0 /\ snip' = 0
       ELSE pc' = pc /\ doc' = doc /\ snip' = snip + 1
    /\ UNCHANGED <<concurrentVars, normalizeVars, importedByVars, failure, versionsVars, describeVars, op, now, Limit, shouldContinue, morePages, page, ret, visits>>

\* after Visit: (nil, errs) when any error was collected, else page++
SearchLegacyAfterVisit ==
    /\ pc = "if errs"
    /\ IF VisitHadErrors(errs)
       THEN /\ ret' = Return("nil", "errs")
            /\ pc' = "Search returned"
            /\ UNCHANGED page
       ELSE /\ page' = page + 1
            /\ pc' = "for morePages"
            /\ UNCHANGED ret
    /\ UNCHANGED <<concurrentVars, normalizeVars, importedByVars, failure, versionsVars, describeVars, op, now, Limit, results, errs, shouldContinue, morePages, doc, snip,
                   visits, obs>>

-----------------------------------------------------------------------------
(* Versions *)

\* the zero Version
BlankVersion == [MajorVersion |-> "", FullVersion |-> "", Date |-> ""]

\* strings.TrimSpace of a text: blank fields at either end are what spaces
\* there split off
RECURSIVE TrimSpace(_)
TrimSpace(s) ==
    IF Len(s) > 1 /\ s[1] = "" THEN TrimSpace(Tail(s))
    ELSE IF Len(s) > 1 /\ s[Len(s)] = "" THEN TrimSpace(SubSeq(s, 1, Len(s) - 1))
    ELSE s

\* a child of .Versions-list: its classes, its own text, the text of the
\* .js-versionLink inside it and the text of its .Version-summary once the
\* spans are removed
Node(classes, text, link, summary) ==
    [class |-> classes, text |-> text, link |-> link, summary |-> summary]

\* the children the walk may meet, each with one marker class or none
VersionNodes ==
    { Node({"Version-major"}, t, "", <<"">>) : t \in {<<"", "">>, <<"v1">>, <<"", "v2">>} }
    \cup { Node({"Version-tag"}, <<"">>, l, <<"">>) : l \in {"", "v1.2.0"} }
    \cup { Node({"Version-commitTime"}, t, "", <<"">>) :
             t \in {<<"today">>, <<"5", "fortnights", "ago">>} }
    \cup { Node({"Version-details"}, <<"">>, "", t) :
             t \in {<<"Jan", "2,", "2006">>, <<"not", "a", "date">>} }
    \cup { Node({}, <<"go">>, "", <<"">>) }

\* what the Each callback holds and writes: the two locals of the walk, the
\* emitted Versions and the error list
Walk(cur, major, out, e) == [cur |-> cur, major |-> major, out |-> out, errs |-> e]

\* curVersion = Version{} after an emission
ResetVersionKeepsMajor(cur) == [BlankVersion EXCEPT !.MajorVersion = cur.MajorVersion]
ResetVersion(cur) == BlankVersion

\* errs.Errs after a .Version-commitTime whose text does not normalize
CommitTimeFailureOnlyLogged(e, err) == e
CommitTimeFailure(e, err) == Append(e, Err(err, 0))

\* a failure of .Version-details treated like one of .Version-commitTime
DetailsFailureAppends(e, err) == Append(e, Err(err, 0))

\* errs.Errs after a .Version-details whose summary does not normalize: the
\* error is printed, not appended
DetailsFailure(e, err) == e

\* the if block of .Version-major
OnVersionMajor(w, node) ==
    LET mv == Join(TrimSpace(node.text))
        major == IF mv # "" THEN mv ELSE w.major
    IN [w EXCEPT !.major = major, !.cur.MajorVersion = major]

\* the if block of .Version-tag
OnVersionTag(w, node) == [w EXCEPT !.cur.FullVersion = node.link]

\* date stamped, curVersion appended, curVersion reset
Emit(w, t) ==
    [w EXCEPT !.out = Append(@, [w.cur EXCEPT !.Date = t]),
              !.cur = ResetVersion(w.cur)]

\* the body of the Each callback for one child: the four if blocks in order;
\* a failed normalization returns from the callback
EachChild(w, node, clock) ==
    LET w1 == IF "Version-major" \in node.class THEN OnVersionMajor(w, node) ELSE w
        w2 == IF "Version-tag" \in node.class THEN OnVersionTag(w1, node) ELSE w1
        commit == normalizeTime(TrimSpace(node.text), clock)
        w3 == IF "Version-commitTime" \in node.class THEN Emit(w2, commit.val) ELSE w2
        details == normalizeTime(TrimSpace(node.summary), clock)
    IN IF "Version-commitTime" \in node.class /\ commit.err # ""
       THEN [w2 EXCEPT !.errs = CommitTimeFailure(@, commit.err)]
       ELSE IF "Version-details" \in node.class /\ details.err # ""
       THEN [w3 EXCEPT !.errs = DetailsFailure(@, details.err)]
       ELSE IF "Version-details" \in node.class
       THEN Emit(w3, details.val)
       ELSE w3

\* the end of the children: the callback returns and its locals are dropped
EndOfListFlushes(out, cur) == IF cur # BlankVersion THEN Append(out, cur) ELSE out
EndOfList(out, cur) == out

\* the test that decides between (nil, errs) and (versions, nil)
VersionsHasErrors(e) == Len(e) > 0

\* errs.Errs after OnError
OnError(e, status, wrap) ==
    IF status = 404 THEN Append(e, Err("ErrNotFound", 404))
    ELSE Append(e, Err(wrap, status))

\* what the history records of the walk
NoVLog == [lists     |-> 0,      \* .Versions-list elements met
           walked    |-> 0,      \* children walked, over all lists
           emitted   |-> <<>>,   \* for each emitted Version: the child that
                                 \* emitted it, whether a major label was met
                                 \* since the emission before, the text of the
                                 \* last such label and the last non-empty
                                 \* label text of the walk
           terminals |-> <<>>,   \* the terminal markers whose date normalizes
           inGroup   |-> FALSE,  \* a major label was met since the last emission
           label     |-> "",     \* the trimmed text of the last such label
           sticky    |-> "",     \* the last non-empty label text of this list
           failed    |-> <<>>,   \* the commitTime children that did not normalize
           noisy     |-> <<>>,   \* the details children that did not normalize
           dropped   |-> FALSE]  \* a list ended with a record under way

IsTerminal(node) == node.class \cap {"Version-commitTime", "Version-details"} # {}

\* whether the date text of a terminal marker normalizes
Normalizes(node) ==
    IF "Version-commitTime" \in node.class
    THEN normalizeTime(TrimSpace(node.text), 0).err = ""
    ELSE normalizeTime(TrimSpace(node.summary), 0).err = ""

\* the history after one more child, the k-th, was walked
ObserveChild(l, node, k) ==
    LET isMajor == "Version-major" \in node.class
        text    == Join(TrimSpace(node.text))
        inGroup == l.inGroup \/ isMajor
        label   == IF isMajor THEN text ELSE l.label
        sticky  == IF isMajor /\ text # "" THEN text ELSE l.sticky
        emits   == IsTerminal(node) /\ Normalizes(node)
        fails   == IsTerminal(node) /\ ~Normalizes(node)
    IN [l EXCEPT
          !.walked    = k,
          !.sticky    = sticky,
          !.inGroup   = IF emits THEN FALSE ELSE inGroup,
          !.label     = IF emits THEN "" ELSE label,
          !.terminals = IF emits THEN Append(@, k) ELSE @,
          !.failed    = IF fails /\ "Version-commitTime" \in node.class
                        THEN Append(@, k) ELSE @,
          !.noisy     = IF fails /\ "Version-details" \in node.class
                        THEN Append(@, k) ELSE @]

\* Versions is called: errs and versions are initialised
Versions ==
    /\ pc = "idle"
    /\ op' = "Versions"
    /\ pc' = "Visit versions"
    /\ errs' = <<>>
    /\ versions' = <<>>
    /\ vlog' = NoVLog
    /\ UNCHANGED <<concurrentVars, normalizeVars, importedByVars, failure, now, ret, searchVars, describeVars, curVersion, curMajorVersion>>

\* the fetch fails: OnError appends ErrNotFound for a 404 and the wrapped
\* error otherwise
VersionsVisitOnError(status) ==
    /\ pc = "Visit versions"
    /\ errs' = OnError(errs, status, "making req")
    /\ pc' = "return versions"
    /\ failure' = status
    /\ UNCHANGED <<concurrentVars, normalizeVars, importedByVars, op, now, ret, searchVars, describeVars, versionsVars>>

\* the page is fetched
VersionsVisit ==
    /\ pc = "Visit versions"
    /\ pc' = "on Versions-list"
    /\ UNCHANGED <<concurrentVars, normalizeVars, importedByVars, failure, op, now, errs, ret, searchVars, describeVars, versionsVars>>

\* the callback of one .Versions-list starts with fresh locals
VersionsList ==
    /\ pc = "on Versions-list"
    /\ vlog.lists < MaxLists
    /\ curVersion' = BlankVersion
    /\ curMajorVersion' = ""
    /\ vlog' = [vlog EXCEPT !.lists = @ + 1, !.inGroup = FALSE, !.label = "",
                            !.sticky = ""]
    /\ pc' = "Each child"
    /\ UNCHANGED <<concurrentVars, normalizeVars, importedByVars, failure, op, now, errs, ret, searchVars, describeVars, versions>>

\* Each hands the next child to its callback
VersionsEachChild(node) ==
    /\ pc = "Each child"
    /\ vlog.walked < MaxNodes
    /\ \E w \in {EachChild(Walk(curVersion, curMajorVersion, versions, errs), node, now)},
          l \in {ObserveChild(vlog, node, vlog.walked + 1)} :
          /\ curVersion' = w.cur
          /\ curMajorVersion' = w.major
          /\ versions' = w.out
          /\ errs' = w.errs
          /\ vlog' = IF Len(w.out) > Len(versions)
                     THEN [l EXCEPT !.emitted = Append(@,
                              [at |-> l.walked,
                               inGroup |-> vlog.inGroup \/ "Version-major" \in node.class,
                               label |-> IF "Version-major" \in node.class
                                         THEN Join(TrimSpace(node.text))
                                         ELSE vlog.label,
                               sticky |-> l.sticky])]
                     ELSE l
    /\ UNCHANGED <<concurrentVars, normalizeVars, importedByVars, failure, op, pc, now, ret, searchVars, describeVars>>

\* the children are exhausted: the callback returns
VersionsEndOfList ==
    /\ pc = "Each child"
    /\ versions' = EndOfList(versions, curVersion)
    /\ vlog' = [vlog EXCEPT !.dropped = @ \/ curVersion # BlankVersion]
    /\ pc' = "on Versions-list"
    /\ UNCHANGED <<concurrentVars, normalizeVars, importedByVars, failure, op, now, errs, ret, searchVars, describeVars, curVersion,
                   curMajorVersion>>

\* no .Versions-list is left: Visit returns, and Versions returns (nil, errs)
\* when any error was collected, else (versions, nil)
VersionsReturn ==
    /\ pc \in {"on Versions-list", "return versions"}
    /\ ret' = IF VersionsHasErrors(errs) THEN Return("nil", "errs")
              ELSE Return("value", "nil")
    /\ pc' = "Versions returned"
    /\ UNCHANGED <<concurrentVars, normalizeVars, importedByVars, failure, op, now, errs, searchVars, describeVars, versionsVars>>

-----------------------------------------------------------------------------
(* DescribePackage: the kind flags and the published date *)

\* the fields of Package that the commitTime and titleHeading callbacks write
ZeroPackage ==
    [IsModule |-> FALSE, IsPackage |-> FALSE, Published |-> "",
     Images |-> 0]   \* len(p.Images)

\* the texts of the siblings that may follow a title heading
LabelTexts == {"command", "package", "module", "go"}

\* the siblings after one title heading, in order
LabelSeqs == UNION { [1 .. n -> LabelTexts] : n \in 0 .. MaxLabels }

\* the text of [data-test-id=UnitHeader-commitTime]; <<>> when the page has
\* no such element
CommitTimes == { <<>>, <<"Published:", "today">>, <<"Jan", "2,", "2006">>,
                 <<"Published:", "not", "a", "date">> }

\* strings.TrimPrefix(text, "Published: ")
TrimPrefixPublished(s) ==
    IF Len(s) >= 2 /\ s[1] = "Published:" THEN Tail(s) ELSE s

\* the cases "package" and "module" of the switch
SetKindAlwaysPackage(pk, label) == [pk EXCEPT !.IsPackage = TRUE]
SetKind(pk, label) ==
    IF label = "package" THEN [pk EXCEPT !.IsPackage = TRUE]
    ELSE [pk EXCEPT !.IsModule = TRUE]

\* the condition of the default case under which the parsing-bug error is
\* appended
KindMissing(pk) == ~pk.IsPackage /\ ~pk.IsModule

\* the for loop over the siblings of the title heading: the Package when the
\* default case returns.  Past the last sibling next.Text() is "", which is
\* the default case too
RECURSIVE ScanLabels(_, _)
ScanLabels(labels, pk) ==
    IF labels = <<>> THEN pk
    ELSE IF Head(labels) = "command" THEN ScanLabels(Tail(labels), pk)
    ELSE IF Head(labels) \in {"package", "module"}
    THEN ScanLabels(Tail(labels), SetKind(pk, Head(labels)))
    ELSE pk

\* what the history records of the page
NoDLog == [headings |-> 0,      \* title headings met
           package  |-> FALSE,  \* "package" stood among the recognised labels
                                \* right after some title heading
           module   |-> FALSE,  \* the same for "module"
           missing  |-> FALSE]  \* the scan of some title heading ended with
                                \* neither label met so far

\* whether label stands in the run of recognised labels that opens labels
AmongRecognised(labels, label) ==
    \E i \in 1 .. Len(labels) :
        /\ labels[i] = label
        /\ \A j \in 1 .. i : labels[j] \in {"command", "package", "module"}

\* DescribePackage is called: p and errs are initialised
DescribePackage ==
    /\ pc = "idle"
    /\ op' = "DescribePackage"
    /\ pc' = "Visit package"
    /\ errs' = <<>>
    /\ p' = ZeroPackage
    /\ dlog' = NoDLog
    /\ UNCHANGED <<concurrentVars, normalizeVars, importedByVars, failure, now, ret, searchVars, versionsVars>>

\* the fetch fails: OnError appends ErrNotFound for a 404 and the wrapped
\* error otherwise
DescribeVisitOnError(status) ==
    /\ pc = "Visit package"
    /\ errs' = OnError(errs, status, "making req")
    /\ pc' = "return package"
    /\ failure' = status
    /\ UNCHANGED <<concurrentVars, normalizeVars, importedByVars, op, now, ret, searchVars, versionsVars, describeVars>>

\* the page is fetched; of the callbacks registered before titleHeading the
\* one of UnitHeader-commitTime can fail: it normalizes the published date
DescribeVisit(commitTime) ==
    /\ pc = "Visit package"
    /\ \E t \in {normalizeTime(TrimPrefixPublished(TrimSpace(commitTime)), now)} :
          IF commitTime = <<>> THEN UNCHANGED <<p, errs>>
          ELSE IF t.err # "" THEN errs' = Append(errs, Err(t.err, 0)) /\ UNCHANGED p
          ELSE p' = [p EXCEPT !.Published = t.val] /\ UNCHANGED errs
    /\ pc' = "on titleHeading"
    /\ UNCHANGED <<concurrentVars, normalizeVars, importedByVars, failure, op, now, ret, searchVars, versionsVars, dlog>>

\* the callback of one .UnitHeader-titleHeading followed by labels
DescribeTitleHeading(labels) ==
    /\ pc = "on titleHeading"
    /\ dlog.headings < MaxHeadings
    /\ \E scanned \in {ScanLabels(labels, p)} :
          /\ p' = scanned
          /\ errs' = IF KindMissing(scanned)
                     THEN Append(errs, Err("IsPackage=false after parsing page", 0))
                     ELSE errs
    /\ dlog' = [dlog EXCEPT !.headings = @ + 1,
                            !.package = @ \/ AmongRecognised(labels, "package"),
                            !.module = @ \/ AmongRecognised(labels, "module"),
                            !.missing = @ \/ ~(\/ dlog.package \/ dlog.module
                                               \/ AmongRecognised(labels, "package")
                                               \/ AmongRecognised(labels, "module"))]
    /\ UNCHANGED <<concurrentVars, normalizeVars, importedByVars, failure, op, pc, now, ret, searchVars, versionsVars>>

\* the callback of one ".UnitReadme-content img", registered after the one of
\* the title heading: it runs whatever errs holds
DescribeImage ==
    /\ pc \in {"on titleHeading", "on img"}
    /\ p.Images < MaxImages
    /\ p' = [p EXCEPT !.Images = @ + 1]
    /\ pc' = "on img"
    /\ UNCHANGED <<concurrentVars, normalizeVars, importedByVars, failure, op, now, errs, ret, searchVars, versionsVars, dlog>>

\* the kinds of the errors OnError appends
FetchErrors == {"ErrNotFound", "making req"}

\* an error test that looks for a failed fetch only
DescribeHasFetchError(e) == \E i \in 1 .. Len(e) : e[i].kind \in FetchErrors

\* the test that decides between (nil, errs) and (p, nil)
DescribeHasErrors(e) == Len(e) # 0

\* no title heading is left: Visit returns, and DescribePackage returns
\* (nil, errs) when any error was collected, else (p, nil)
DescribeReturn ==
    /\ pc \in {"on titleHeading", "on img", "return package"}
    /\ ret' = IF DescribeHasErrors(errs) THEN Return("nil", "errs")
              ELSE Return("value", "nil")
    /\ pc' = "DescribePackage returned"
    /\ UNCHANGED <<concurrentVars, normalizeVars, importedByVars, failure, op, now, errs, searchVars, versionsVars, describeVars>>

-----------------------------------------------------------------------------
(* ImportedBy *)

\* var err error: no error yet
NoError == Err("nil", 0)

\* OnError has not been called
NoFailure == -1

\* err after OnError
ImportedByOnError(status) ==
    IF status = 404 THEN Err("ErrNotFound", 404) ELSE Err("making req", status)

\* ImportedBy is called: importedBy and err are initialised
ImportedBy ==
    /\ pc = "idle"
    /\ op' = "ImportedBy"
    /\ pc' = "Visit importedby"
    /\ importedByList' = 0
    /\ importedByErr' = NoError
    /\ UNCHANGED <<concurrentVars, normalizeVars, now, errs, ret, failure, searchVars, versionsVars, describeVars>>

\* the fetch fails: OnError sets err
ImportedByVisitOnError(status) ==
    /\ pc = "Visit importedby"
    /\ importedByErr' = ImportedByOnError(status)
    /\ failure' = status
    /\ pc' = "return importedby"
    /\ UNCHANGED <<concurrentVars, normalizeVars, op, now, errs, ret, importedByList, searchVars, versionsVars, describeVars>>

\* the callback of one .u-breakWord
ImportedByEach ==
    /\ pc \in {"Visit importedby", "on u-breakWord"}
    /\ importedByList < MaxImporters
    /\ importedByList' = importedByList + 1
    /\ pc' = "on u-breakWord"
    /\ UNCHANGED <<concurrentVars, normalizeVars, op, now, errs, ret, importedByErr, failure, searchVars, versionsVars, describeVars>>

\* Visit returned: (nil, err) when err was set, else (importedBy, nil)
ImportedByReturn ==
    /\ pc \in {"Visit importedby", "on u-breakWord", "return importedby"}
    /\ ret' = IF importedByErr # NoError THEN Return("nil", "err") ELSE Return("value", "nil")
    /\ pc' = "ImportedBy returned"
    /\ UNCHANGED <<concurrentVars, normalizeVars, op, now, errs, failure, searchVars, versionsVars, describeVars,
                   importedByVars>>

-----------------------------------------------------------------------------
(* normalizeTime on its own *)

\* normalizeTime(s) is called
NormalizeTime(s) ==
    /\ pc = "idle"
    /\ op' = "normalizeTime"
    /\ dateStr' = s
    /\ normalized' = normalizeTime(s, now)
    /\ pc' = "normalized"
    /\ UNCHANGED <<concurrentVars, now, errs, ret, failure, renormalized, searchVars, versionsVars,
                   describeVars, importedByVars>>

\* normalizeTime is called on the string it returned, which has no space and
\* so is a single field
NormalizeAgain ==
    /\ pc = "normalized"
    /\ normalized.err = ""
    /\ renormalized' = normalizeTime(<<normalized.val>>, now)
    /\ pc' = "normalized again"
    /\ UNCHANGED <<concurrentVars, op, now, errs, ret, failure, dateStr, normalized, searchVars,
                   versionsVars, describeVars, importedByVars>>

-----------------------------------------------------------------------------
(* Concurrent calls on one client *)

\* the options of New
WithBaseURL(c, url) == [c EXCEPT !.baseURL = url]
WithHTTPClient(c, httpClient) == [c EXCEPT !.httpClient = httpClient]

\* New(options...): the default client with the options applied
DefaultClient == [baseURL |-> "https://pkg.go.dev", httpClient |-> "nil"]

ApplyOption(c, options, opt) ==
    IF opt \notin options THEN c
    ELSE IF opt = "WithBaseURL" THEN WithBaseURL(c, "http://localhost:8080")
    ELSE WithHTTPClient(c, "stub")

New(options) ==
    ApplyOption(ApplyOption(DefaultClient, options, "WithBaseURL"),
                options, "WithHTTPClient")

\* the goroutines that call the client
Callers == {1, 2}

\* the requests of the concurrent calls
Requests ==
    { [op |-> "Search", limit |-> l] : l \in 1 .. MaxCallLimit }
        \cup { [op |-> "Versions", limit |-> 0] }

\* a search page: the HTTP status and the snippets in its .SearchResults
Page(status, n) == [status |-> status, n |-> n]

\* the sites served: the search pages in order (an empty results container
\* after the last) and the children of the .Versions-list
Sites ==
    [search : { <<Page(200, 2), Page(200, 2)>>, <<Page(200, 1), Page(500, 0)>> },
     versions : { <<Node({"Version-major"}, <<"v1">>, "", <<"">>),
                    Node({"Version-tag"}, <<"">>, "v1.2.0", <<"">>),
                    Node({"Version-commitTime"}, <<"today">>, "", <<"">>)>>,
                  <<Node({"Version-tag"}, <<"">>, "v1.2.0", <<"">>),
                    Node({"Version-details"}, <<"">>, "", <<"Jan", "2,", "2006">>),
                    Node({"Version-commitTime"}, <<"5", "fortnights", "ago">>, "",
                         <<"">>)>> }]

NoSite == [search |-> <<>>, versions |-> <<>>]

PageOf(s, k) == IF k <= Len(s.search) THEN s.search[k] ELSE Page(200, 0)

\* what a call returns: res is "nil" or "value", with the value and the errors
CallReturns(res, value, e) == [res |-> res, value |-> value, errs |-> e]

\* the variables a call declares: results / versions (out), errs,
\* shouldContinue, page, curVersion, curMajorVersion; todo is what is left
\* of the document its callbacks walk, base the baseURL it last read
StartCall(req) ==
    [req |-> req, pc |-> "Visit", page |-> 1, shouldContinue |-> TRUE,
     out |-> <<>>, errs |-> <<>>, todo |-> <<>>, cur |-> BlankVersion,
     major |-> "", base |-> "", ret |-> CallReturns("pending", <<>>, <<>>),
     overlapped |-> FALSE]   \* history: it took a step while another call ran

NoCall == [StartCall([op |-> "none", limit |-> 0]) EXCEPT !.pc = "idle"]

\* results and errs declared at package level, shared by the calls
PackageLevelResults(cs, i) == [cs[i] EXCEPT !.out = cs[1].out, !.errs = cs[1].errs]

\* the variables the closures of call i capture: its own
Locals(cs, i) == cs[i]

\* the loop condition and col.Visit of Search, col.Visit of Versions
VisitStep(l, s, c) ==
    IF l.req.op = "Search"
    THEN IF ~LoopGuard(l.shouldContinue, Len(l.out), l.req.limit)
         THEN [l EXCEPT !.pc = "return"]
         ELSE IF PageOf(s, l.page).status # 200
         THEN [l EXCEPT !.errs = @ \o <<Err("error fetching", l.page),
                                        Err("visiting page", l.page)>>,
                        !.shouldContinue = FALSE,
                        !.base = c.baseURL,
                        !.pc = "return"]
         ELSE IF PageOf(s, l.page).n = 0
         THEN [l EXCEPT !.shouldContinue = FALSE, !.base = c.baseURL,
                        !.pc = "page++"]
         ELSE [l EXCEPT !.todo = [k \in 1 .. PageOf(s, l.page).n |-> k],
                        !.base = c.baseURL,
                        !.pc = "each"]
    ELSE [l EXCEPT !.todo = s.versions, !.base = c.baseURL, !.pc = "each"]

\* the callback of one snippet of Search
EachSnippetStep(l) ==
    IF SnippetLimitReached(Len(l.out), l.req.limit)
    THEN [l EXCEPT !.shouldContinue = FALSE,
                   !.todo = Tail(@),
                   !.pc = IF Len(l.todo) = 1 THEN "page++" ELSE "each"]
    ELSE [l EXCEPT !.out = Append(@, Result(<<l.page, Head(l.todo)>>)),
                   !.todo = Tail(@),
                   !.pc = IF Len(l.todo) = 1 THEN "page++" ELSE "each"]

\* the callback of one child of the .Versions-list
AfterChild(l, w) ==
    [l EXCEPT !.cur = w.cur, !.major = w.major, !.errs = w.errs,
              !.out = IF Len(l.todo) = 1 THEN EndOfList(w.out, w.cur) ELSE w.out,
              !.todo = Tail(@),
              !.pc = IF Len(l.todo) = 1 THEN "return" ELSE "each"]

EachChildStep(l, clock) ==
    AfterChild(l, EachChild(Walk(l.cur, l.major, l.out, l.errs), Head(l.todo), clock))

\* page++ and the ceiling of Search
NextPageStep(l) ==
    [l EXCEPT !.page = @ + 1,
              !.pc = IF PastCeiling(l.page + 1) THEN "return" ELSE "Visit"]

\* the return of Search and of Versions
ReturnStep(l) ==
    [l EXCEPT !.pc = "returned",
              !.ret = IF HasErrors(l.errs) THEN CallReturns("nil", <<>>, l.errs)
                      ELSE CallReturns("value", l.out, <<>>)]

\* the next step of a call
Step(l, s, c, clock) ==
    CASE l.pc = "Visit" -> VisitStep(l, s, c)
      [] l.pc = "each" /\ l.req.op = "Search" -> EachSnippetStep(l)
      [] l.pc = "each" /\ l.req.op = "Versions" -> EachChildStep(l, clock)
      [] l.pc = "page++" -> NextPageStep(l)
      [] l.pc = "return" -> ReturnStep(l)
      [] OTHER -> l

\* what the call returns when it runs alone
RECURSIVE RunAlone(_, _, _, _)
RunAlone(l, s, c, clock) ==
    IF l.pc = "returned" THEN l.ret ELSE RunAlone(Step(l, s, c, clock), s, c, clock)

\* whether another call is under way while call i takes a step
Overlap(cs, i, l) ==
    [l EXCEPT !.overlapped =
        @ \/ \E j \in Callers \ {i} : cs[j].pc \notin {"idle", "returned"}]

\* the client is constructed, against a server that serves the site s
NewClient(options, s) ==
    /\ op = "none"
    /\ op' = "concurrent"
    /\ client' = New(options)
    /\ site' = s
    /\ UNCHANGED <<pc, now, errs, ret, failure, calls, searchVars, versionsVars,
                   describeVars, importedByVars, normalizeVars>>

\* caller i calls Search or Versions with its own request
Call(i, req) ==
    /\ op = "concurrent"
    /\ calls[i].pc = "idle"
    /\ calls' = [calls EXCEPT ![i] = StartCall(req)]
    /\ UNCHANGED <<op, pc, now, errs, ret, failure, client, site, searchVars, versionsVars,
                   describeVars, importedByVars, normalizeVars>>

\* the call of caller i takes its next step, on the variables it captured
CallVisit(i) ==
    /\ Locals(calls, i).pc = "Visit"
    /\ calls' = [calls EXCEPT ![i] = Overlap(calls, i, VisitStep(Locals(calls, i), site, client))]
    /\ UNCHANGED <<op, pc, now, errs, ret, failure, client, site, searchVars,
                   versionsVars, describeVars, importedByVars, normalizeVars>>

CallEach(i) ==
    /\ Locals(calls, i).pc = "each"
    /\ calls' = [calls EXCEPT ![i] = Overlap(calls, i,
                    IF calls[i].req.op = "Search"
                    THEN EachSnippetStep(Locals(calls, i))
                    ELSE EachChildStep(Locals(calls, i), now))]
    /\ UNCHANGED <<op, pc, now, errs, ret, failure, client, site, searchVars,
                   versionsVars, describeVars, importedByVars, normalizeVars>>

CallNextPage(i) ==
    /\ Locals(calls, i).pc = "page++"
    /\ calls' = [calls EXCEPT ![i] = Overlap(calls, i, NextPageStep(Locals(calls, i)))]
    /\ UNCHANGED <<op, pc, now, errs, ret, failure, client, site, searchVars,
                   versionsVars, describeVars, importedByVars, normalizeVars>>

CallReturn(i) ==
    /\ Locals(calls, i).pc = "return"
    /\ calls' = [calls EXCEPT ![i] = Overlap(calls, i, ReturnStep(Locals(calls, i)))]
    /\ UNCHANGED <<op, pc, now, errs, ret, failure, client, site, searchVars,
                   versionsVars, describeVars, importedByVars, normalizeVars>>

-----------------------------------------------------------------------------

Init ==
    /\ op = "none"
    /\ pc = "idle"
    /\ now \in Clock
    /\ Limit = 0
    /\ results = <<>>
    /\ errs = <<>>
    /\ shouldContinue = TRUE
    /\ morePages = TRUE
    /\ page = 0
    /\ doc = 0
    /\ snip = 0
    /\ ret = NotReturned
    /\ visits = <<>>
    /\ obs = NoObs
    /\ versions = <<>>
    /\ curVersion = BlankVersion
    /\ curMajorVersion = ""
    /\ vlog = NoVLog
    /\ p = ZeroPackage
    /\ dlog = NoDLog
    /\ importedByList = 0
    /\ importedByErr = NoError
    /\ failure = NoFailure
    /\ dateStr = <<>>
    /\ normalized = NotCalled
    /\ renormalized = NotCalled
    /\ client = New({})
    /\ site = NoSite
    /\ calls = [i \in Callers |-> NoCall]

Next ==
    \/ \E limit \in -1 .. MaxLimit : Search(limit)
    \/ SearchLoopExit
    \/ \E d \in Docs : SearchVisit(d)
    \/ \E status \in FailStatuses : SearchVisitOnError(status)
    \/ SearchVisitRefused
    \/ \E sn \in Snippets : SearchEachSnippet(sn)
    \/ SearchNextPage
    \/ SearchReturn
    \/ \E limit \in -1 .. MaxLegacyLimit : SearchLegacy(limit)
    \/ SearchLegacyReturn
    \/ \E d \in Docs : SearchLegacyVisit(d)
    \/ \E status \in FailStatuses : SearchLegacyVisitOnError(status)
    \/ SearchLegacyVisitRefused
    \/ \E sn \in Snippets : SearchLegacySnippet(sn)
    \/ SearchLegacyAfterVisit
    \/ Versions
    \/ \E status \in FailStatuses : VersionsVisitOnError(status)
    \/ VersionsVisit
    \/ VersionsList
    \/ \E node \in VersionNodes : VersionsEachChild(node)
    \/ VersionsEndOfList
    \/ VersionsReturn
    \/ DescribePackage
    \/ \E status \in FailStatuses : DescribeVisitOnError(status)
    \/ \E commitTime \in CommitTimes : DescribeVisit(commitTime)
    \/ \E labels \in LabelSeqs : DescribeTitleHeading(labels)
    \/ DescribeImage
    \/ DescribeReturn
    \/ ImportedBy
    \/ \E status \in FailStatuses : ImportedByVisitOnError(status)
    \/ ImportedByEach
    \/ ImportedByReturn

Spec == Init /\ [][Next]_vars

\* normalizeTime alone, on every string of Texts
NextNormalize ==
    \/ \E s \in Texts : NormalizeTime(s)
    \/ NormalizeAgain

SpecNormalize == Init /\ [][NextNormalize]_vars

\* calls of Search and Versions running concurrently on one client
NextConcurrent ==
    \/ \E options \in SUBSET {"WithBaseURL", "WithHTTPClient"}, s \in Sites :
          NewClient(options, s)
    \/ \E i \in Callers, req \in Requests : Call(i, req)
    \/ \E i \in Callers : CallVisit(i)
    \/ \E i \in Callers : CallEach(i)
    \/ \E i \in Callers : CallNextPage(i)
    \/ \E i \in Callers : CallReturn(i)

SpecConcurrent == Init /\ [][NextConcurrent]_vars

-----------------------------------------------------------------------------
(* Properties of Search *)

IsSearch == op \in {"Search (part_000)", "Search (client.go)"}

Returned == ret # NotReturned

\* the results carry the serial numbers 1 .. n, in order
FirstSnippets(n) == [i \in 1 .. n |-> Result(i)]

\* C1: for a limit >= 0, the accumulated results never hold more than limit
\* entries: not after any snippet, and not when Search returns.
SearchNeverExceedsLimit ==
    (IsSearch /\ Limit >= 0) => Len(results) <= Limit

\* C1 happens: a Search returned a full result list after turning a further
\* snippet away
SearchFilledToLimit ==
    /\ IsSearch /\ Returned
    /\ Limit >= 2
    /\ Len(results) = Limit
    /\ obs.dropped

\* C2: whatever the pages contain, Search calls Visit at most 10 times.
SearchFetchesAtMostTenPages ==
    (IsSearch /\ Limit >= 1) => Len(visits) <= PageCeiling

\* C3 as claimed, read in its favour (every page fetched, with its results
\* container and no total header, limit >= 1): when Search returns, the pages
\* fetched are 1 .. n with n the first page on which the running total reached
\* the limit or the container held no snippet; and with limit 5 and 3 snippets
\* a page, they are pages 1 and 2 and the results are the first 5 snippets.
SearchStopsOnlyAtLimitOrEmptyPage ==
    (op = "Search (part_000)" /\ Limit >= 1 /\ obs.plain /\ Returned) =>
        /\ visits = [i \in 1 .. Len(visits) |-> i]
        /\ \/ obs.limitPage = Len(visits)
           \/ obs.emptyPage = Len(visits)
        /\ (Limit = 5 /\ obs.allThree) =>
               visits = <<1, 2>> /\ results = FirstSnippets(5) /\ obs.dropped

\* C3 as amended: the Search of part_000 fetches the pages 1 .. n in order and
\* none after n, where n is the first page on which the running total reached
\* the limit, or whose results container held no snippet, or whose Visit
\* returned an error, or n = 10, the page ceiling; a page without a results
\* container does not end the loop, and a limit <= 0 fetches no page.  With
\* limit 5 and 3 snippets a page the pages are 1 and 2 and the results are
\* the first 5 snippets, the sixth being turned away.
SearchStopsAtLimitEmptyErrorOrCeiling ==
    op = "Search (part_000)" =>
        /\ visits = [i \in 1 .. Len(visits) |-> i]
        /\ Len(visits) <= PageCeiling
        /\ \A f \in {"limitPage", "emptyPage", "errPage"} :
               obs[f] # 0 => Len(visits) = obs[f]
        /\ Returned =>
               \/ Limit <= 0 /\ visits = <<>>
               \/ Len(visits) \in {obs.limitPage, obs.emptyPage, obs.errPage}
               \/ Len(visits) = PageCeiling
        /\ (Returned /\ Limit = 5 /\ obs.allThree) =>
               visits = <<1, 2>> /\ results = FirstSnippets(5) /\ obs.dropped

\* C3 happens: limit 5 and two pages of 3 snippets
SearchFiveOfSix ==
    /\ op = "Search (part_000)" /\ Returned
    /\ Limit = 5 /\ obs.allThree /\ obs.plain
    /\ visits = <<1, 2>>
    /\ ret = Return("value", "nil")

\* C4: once a fetched page carries a header "N - M of T" with M >= limit or
\* M = T, Search calls Visit no more.
SearchStopsAtHeader ==
    [][(IsSearch /\ Limit >= 1 /\ obs.hdrStop) => visits' = visits]_vars

\* C5: a fetch that ends in OnError is the last Visit of the Search, which
\* then returns (nil, errs) with that failure in errs, whatever it collected
\* before; and a Search that returns results has an empty error list.
SearchFetchErrorIsAllOrNothing ==
    IsSearch =>
        /\ obs.failPage # 0 =>
              /\ Len(visits) = obs.failPage
              /\ \E i \in 1 .. Len(errs) : errs[i].kind \in {"error fetching", "e"}
              /\ Returned => ret = Return("nil", "errs")
        /\ ret.res = "value" => errs = <<>>

\* C5 happens: the fetch of a later page failed after results were collected
SearchFailedAfterResults ==
    /\ IsSearch /\ Returned
    /\ obs.failPage >= 2
    /\ Len(results) >= 1
    /\ ret = Return("nil", "errs")

-----------------------------------------------------------------------------
(* Properties of Versions *)

\* the error kinds of normalizeTime
DateErrors == {"parsing quantity", "unknown quantity", "parsing date"}

\* C6: every emitted Version has a non-empty FullVersion and a normalized Date.
VersionsEmitsCompleteVersions ==
    op = "Versions" =>
        \A i \in DOMAIN versions :
            versions[i].FullVersion # "" /\ versions[i].Date # ""

\* C7: an emitted Version whose group held a major label, blank or not, since
\* the emission before carries the last non-empty label text of the walk, and
\* a Version emitted without a major label since the emission before carries
\* the empty MajorVersion.
MajorVersionIsStickyGroupKey ==
    op = "Versions" =>
        \A i \in DOMAIN versions \cap DOMAIN vlog.emitted :
            versions[i].MajorVersion =
                IF vlog.emitted[i].inGroup THEN vlog.emitted[i].sticky ELSE ""

\* C7 happens: a group with a blank label, after a group labelled v1, was
\* emitted
BlankLabelInheritsMajor ==
    /\ op = "Versions"
    /\ \E i \in DOMAIN vlog.emitted :
          /\ i >= 2
          /\ vlog.emitted[i].inGroup
          /\ vlog.emitted[i].label = ""
          /\ versions[i].MajorVersion = "v1"
          /\ versions[i - 1].MajorVersion = "v1"

\* C8: the emitted Versions are, one for one and in order, the terminal
\* markers whose date normalizes, each emitted by its own marker; the end of
\* the list emits nothing.
VersionsEmitsOncePerTerminal ==
    op = "Versions" =>
        /\ Len(versions) = Len(vlog.terminals)
        /\ [i \in DOMAIN vlog.emitted |-> vlog.emitted[i].at] = vlog.terminals

\* C8 happens: Versions returned after a list ended with a record under way
PendingRecordDiscarded ==
    /\ op = "Versions" /\ Returned
    /\ vlog.dropped
    /\ Len(versions) >= 1
    /\ ret = Return("value", "nil")

\* C9: a commitTime label whose text does not normalize emits nothing and
\* appends its error, and Versions then returns (nil, errs), whatever the
\* other markers emitted.
CommitTimeFailureFailsVersions ==
    op = "Versions" =>
        /\ Len(SelectSeq(errs, LAMBDA e : e.kind \in DateErrors)) = Len(vlog.failed)
        /\ \A i \in DOMAIN vlog.emitted, j \in DOMAIN vlog.failed :
               vlog.emitted[i].at # vlog.failed[j]
        /\ (Returned /\ vlog.failed # <<>>) => ret = Return("nil", "errs")

\* C9 happens: Versions returned after a commitTime failure among emissions
CommitTimeFailedAmongEmissions ==
    /\ op = "Versions" /\ Returned
    /\ vlog.failed # <<>>
    /\ Len(versions) >= 1
    /\ ret = Return("nil", "errs")

\* C15: a detailBlock whose summary does not normalize emits nothing and
\* appends nothing to the error list, the walk goes on, and when nothing else
\* failed (no commitTime label, not the fetch) Versions returns a nil error
\* with every Version the other terminal markers emitted.
DetailsFailureIsNotFatal ==
    op = "Versions" =>
        /\ \A i \in DOMAIN vlog.emitted, j \in DOMAIN vlog.noisy :
               vlog.emitted[i].at # vlog.noisy[j]
        /\ Len(errs) = Len(vlog.failed) + (IF failure # NoFailure THEN 1 ELSE 0)
        /\ (Returned /\ vlog.failed = <<>> /\ failure = NoFailure) =>
               /\ ret = Return("value", "nil")
               /\ Len(versions) = Len(vlog.terminals)

\* C15 happens: Versions returned its Versions, one of them emitted after a
\* detailBlock that did not normalize
EmittedAfterNoisyDetails ==
    /\ op = "Versions" /\ Returned
    /\ vlog.noisy # <<>>
    /\ \E i \in DOMAIN vlog.emitted : vlog.emitted[i].at > vlog.noisy[1]
    /\ ret = Return("value", "nil")

-----------------------------------------------------------------------------
(* Properties of DescribePackage *)

KindError == "IsPackage=false after parsing page"

\* C11: when the scan ended with neither flag set, DescribePackage returns
\* the filled Package together with the error list.
DescribeKindErrorKeepsPackage ==
    (op = "DescribePackage" /\ dlog.missing /\ Returned) =>
        ret = Return("value", "errs")

\* C11 as amended: the parsing-bug error is in the error list exactly when
\* the scan of some title heading ended with neither flag set; it does not
\* stop the extraction, and DescribePackage then returns (nil, errs): the
\* filled Package does not reach the caller.
DescribeKindErrorFailsRequest ==
    op = "DescribePackage" =>
        /\ (\E i \in 1 .. Len(errs) : errs[i].kind = KindError) <=> dlog.missing
        /\ (dlog.missing /\ Returned) => ret = Return("nil", "errs")

\* C11 happens: after the parsing-bug error the later callbacks still filled
\* their fields, and DescribePackage returned (nil, errs)
DescribeFilledButReturnedNil ==
    /\ op = "DescribePackage" /\ Returned
    /\ dlog.missing
    /\ p.Images >= 1 /\ p.Published # ""
    /\ ret = Return("nil", "errs")

-----------------------------------------------------------------------------
(* Properties of the fetch failures *)

\* the errors whose text is formatted with the requested URL
CarriesURL == {"making req", "error fetching"}

\* the errors the running operation holds
Held == IF op = "ImportedBy" THEN <<importedByErr>> ELSE errs

\* C12: in every fetching operation a fetch answered 404 fails with
\* ErrNotFound, a fetch that failed otherwise fails with an error carrying the
\* URL, and no record is returned.
FetchFailureIsClassified ==
    failure # NoFailure =>
        /\ failure = 404 => \E i \in 1 .. Len(Held) : Held[i].kind = "ErrNotFound"
        /\ failure # 404 => \E i \in 1 .. Len(Held) : Held[i].kind \in CarriesURL
        /\ Returned => ret.res = "nil"

-----------------------------------------------------------------------------
(* Properties of normalizeTime *)

\* a string of the form YYYY-MM-DD, among those Format writes: ten characters
IsCanonical(val) == Len(val) = 10

\* C13: when normalizeTime succeeds with d, normalizeTime(d) succeeds and
\* returns d.
NormalizeTimeIsIdempotent ==
    (op = "normalizeTime" /\ pc = "normalized again") =>
        renormalized = Returns(normalized.val, "")

\* C16: for every string normalizeTime returns either a date of the form
\* YYYY-MM-DD and no error, or the empty string and an error; it does not
\* panic.
NormalizeTimeIsTotalAndAtomic ==
    (op = "normalizeTime" /\ pc # "idle") =>
        /\ normalized.err # "panic: index out of range"
        /\ \/ normalized.err = "" /\ IsCanonical(normalized.val)
           \/ normalized.err # "" /\ normalized.val = ""

-----------------------------------------------------------------------------
(* Properties of concurrent calls *)

\* C14: under every interleaving of the steps of concurrent calls, a call
\* returns what its request returns when it runs alone, and no step of a
\* call writes the client.
ConcurrentCallsAreIndependent ==
    [][op = "concurrent" =>
          /\ client' = client
          /\ \A i \in Callers :
                calls'[i].pc = "returned" =>
                    calls'[i].ret =
                        RunAlone(StartCall(calls'[i].req), site', client', now')]_vars

\* C14 happens: a Search and a Versions call, each taking steps while the
\* other ran, both returned a value
InterleavedCallsReturned ==
    /\ op = "concurrent"
    /\ calls[1].req.op = "Search" /\ calls[2].req.op = "Versions"
    /\ \A i \in Callers :
          /\ calls[i].pc = "returned"
          /\ calls[i].overlapped
          /\ calls[i].ret.res = "value" /\ calls[i].ret.value # <<>>

=============================================================================
